---- MODULE Spec2Model ----
(***************************************************************************)
(* gdp_cal.py: Portugal's GDP per capita as a percentage of the mean of 16 *)
(* developed economies.  The pipeline of main (download_csv,               *)
(* detect_columns, prepare_wide, compute_portugal_vs_mean, to_csv,         *)
(* plot_ratio) as a state machine, and its tabular functions as operators. *)
(*                                                                         *)
(* Representation.  A column name is a sequence of one-character strings,  *)
(* so that lower() and the substring test of detect_columns are computed.  *)
(* A number is an exact fraction <<n, d>> in lowest terms (d > 0); the     *)
(* rounding of float64 is not modelled.  A missing value (NaN, pd.NA) is   *)
(* NA.  The bounded inputs hold positive values only, so no mean is zero.  *)
(***************************************************************************)
EXTENDS Integers, Sequences, FiniteSets, TLC

VARIABLES
    pc,           \* the statement of main about to run
    args,         \* parsed command line: start_year, end_year
    df,           \* the downloaded raw table: columns and rows
    cols,         \* what detect_columns returned or raised
    wide,         \* what prepare_wide returned or raised
    out,          \* the result table of compute_portugal_vs_mean
    csv,          \* the output CSV file as written by this run
    png,          \* the output image file as written by this run
    stderr,       \* the diagnostics printed to standard error, in order
    exit_status,  \* the process exit status, Running until the process ends
    stdout,       \* the status lines printed to standard output, in order
    fetches,      \* the number of HTTP requests made
    trace         \* the stages of main entered so far, in order

vars == <<pc, args, df, cols, wide, out, csv, png, stderr, stdout, exit_status, fetches, trace>>

----------------------------------------------------------------------------
(* Values *)

NA == <<>>
None == <<"None">>
Running == -1

IsNA(v) == v = NA

RECURSIVE GCD(_, _)
GCD(a, b) == IF b = 0 THEN a ELSE GCD(b, a % b)

Rat(n, d) == LET g == GCD(n, d) IN <<n \div g, d \div g>>
Num(n) == <<n, 1>>
RatAdd(x, y) == Rat(x[1] * y[2] + y[1] * x[2], x[2] * y[2])
RatMul(x, y) == Rat(x[1] * y[1], x[2] * y[2])
RatDiv(x, y) == Rat(x[1] * y[2], x[2] * y[1])

SetMin(S) == CHOOSE x \in S : \A y \in S : x <= y
SetMax(S) == CHOOSE x \in S : \A y \in S : x >= y

RECURSIVE SortedSeq(_)
SortedSeq(S) == IF S = {} THEN <<>> ELSE <<SetMin(S)>> \o SortedSeq(S \ {SetMin(S)})

Range(s) == {s[i] : i \in 1..Len(s)}

----------------------------------------------------------------------------
(* Program constants *)

DEVELOPED_16 == <<"GBR", "FRA", "DEU", "DNK", "BEL", "NLD", "ESP", "ITA", "PRT",
                  "SWE", "AUT", "USA", "CAN", "AUS", "NZL", "JPN">>
PORTUGAL == "PRT"
MinCoverage == 12

KwYear == <<"y","e","a","r">>
KwEntity == <<"e","n","t","i","t","y">>
KwCountry == <<"c","o","u","n","t","r","y">>
KwCode == <<"c","o","d","e">>
KwGdp == <<"g","d","p">>

CanonYear == <<"y","e","a","r">>
CanonEntity == <<"e","n","t","i","t","y">>
CanonCode == <<"c","o","d","e">>
CanonGdp == <<"g","d","p","_","p","e","r","_","c","a","p","i","t","a">>

----------------------------------------------------------------------------
(* str.lower() and the substring test `kw in name` *)

UpperChars == <<"A","B","C","D","E","F","G","H","I","J","K","L","M",
                "N","O","P","Q","R","S","T","U","V","W","X","Y","Z">>
LowerChars == <<"a","b","c","d","e","f","g","h","i","j","k","l","m",
                "n","o","p","q","r","s","t","u","v","w","x","y","z">>

LowerChar(ch) ==
    IF \E i \in 1..Len(UpperChars) : UpperChars[i] = ch
    THEN LowerChars[CHOOSE i \in 1..Len(UpperChars) : UpperChars[i] = ch]
    ELSE ch

Lower(name) == [i \in 1..Len(name) |-> LowerChar(name[i])]

Contains(name, kw) ==
    \E off \in 0..(Len(name) - Len(kw)) : \A j \in 1..Len(kw) : name[off + j] = kw[j]

----------------------------------------------------------------------------
(* detect_columns *)

\* FirstMatch taking the last matching column instead of the first
FirstMatchLast(columns, kws) ==
    LET hits == {i \in 1..Len(columns) : \E kw \in kws : Contains(Lower(columns[i]), kw)}
    IN  IF hits = {} THEN None ELSE columns[SetMax(hits)]

\* next((c for c in df.columns if kw in c.lower()), None)
FirstMatch(columns, kws) ==
    LET hits == {i \in 1..Len(columns) : \E kw \in kws : Contains(Lower(columns[i]), kw)}
    IN  IF hits = {} THEN None ELSE columns[SetMin(hits)]

\* Python truth of a detected column name: None and "" are false
Truthy(v) == v # None /\ v # <<>>

FieldNames == <<"year", "country/entity", "code", "gdp">>

DetectColumns(columns) ==
    LET year_col == FirstMatch(columns, {KwYear})
        country_col == FirstMatch(columns, {KwEntity, KwCountry})
        code_col == FirstMatch(columns, {KwCode})
        value_col == FirstMatch(columns, {KwGdp})
        found == <<year_col, country_col, code_col, value_col>>
        unresolved == {i \in 1..4 : found[i] = None}
    IN  IF ~(\A i \in 1..4 : Truthy(found[i]))
        THEN [tag |-> "ValueError",
              missing |-> [k \in 1..Cardinality(unresolved) |->
                              FieldNames[SortedSeq(unresolved)[k]]],
              available |-> columns,
              year_col |-> None, country_col |-> None,
              code_col |-> None, value_col |-> None]
        ELSE [tag |-> "ok", missing |-> <<>>, available |-> <<>>,
              year_col |-> year_col, country_col |-> country_col,
              code_col |-> code_col, value_col |-> value_col]

----------------------------------------------------------------------------
(* prepare_wide *)

\* A dict literal: a later pair with the same key replaces the earlier one
DictGet(pairs, key, default) ==
    LET hits == {i \in 1..Len(pairs) : pairs[i][1] = key}
    IN  IF hits = {} THEN default ELSE pairs[SetMax(hits)][2]

\* df.rename(columns={year_col: 'year', country_col: 'entity', code_col: 'code',
\*                    value_col: 'gdp_per_capita'})
RenameColumns(columns, year_col, country_col, code_col, value_col) ==
    LET pairs == << <<year_col, CanonYear>>, <<country_col, CanonEntity>>,
                    <<code_col, CanonCode>>, <<value_col, CanonGdp>> >>
    IN  [i \in 1..Len(columns) |-> DictGet(pairs, columns[i], columns[i])]

\* InRange with both ends exclusive
InRangeExclusive(year, start_year, end_year) == year > start_year /\ year < end_year

\* (df["year"] >= start_year) & (df["year"] <= end_year)
InRange(year, start_year, end_year) == year >= start_year /\ year <= end_year

\* AggFirst taking the last non-null entry (aggfunc="last")
AggLast(vals) ==
    LET present == {i \in 1..Len(vals) : ~IsNA(vals[i])}
    IN  IF present = {} THEN NA ELSE vals[SetMax(present)]

\* aggfunc="first": GroupBy.first, the first non-null entry of the group
AggFirst(vals) ==
    LET present == {i \in 1..Len(vals) : ~IsNA(vals[i])}
    IN  IF present = {} THEN NA ELSE vals[SetMin(present)]

\* The values of the rows of one (year, code) group, in row order
GroupValues(rows, iy, ic, iv, y, c) ==
    LET members == SelectSeq(rows, LAMBDA r : r[iy] = y /\ r[ic] = c)
    IN  [k \in 1..Len(members) |-> members[k][iv]]

WideOk(index, columns, data) ==
    [tag |-> "ok", key |-> "", index |-> index, columns |-> columns, data |-> data]

WideKeyError(key) ==
    [tag |-> "KeyError", key |-> key, index |-> <<>>, columns |-> {}, data |-> <<>>]

\* pivot_table(index="year", columns="code", values="gdp_per_capita", aggfunc="first")
\* with dropna=True: a group whose aggregate is null is dropped before unstacking,
\* so a year or a code with no non-null value is no row or column of the result.
PivotTable(rows, iy, ic, iv) ==
    LET keys == {<<rows[i][iy], rows[i][ic]>> : i \in 1..Len(rows)}
        agg(k) == AggFirst(GroupValues(rows, iy, ic, iv, k[1], k[2]))
        kept == {k \in keys : ~IsNA(agg(k))}
        years == {k[1] : k \in kept}
        codes == {k[2] : k \in kept}
    IN  WideOk(SortedSeq(years), codes,
               [y \in years |-> [c \in codes |->
                   IF <<y, c>> \in kept THEN agg(<<y, c>>) ELSE NA]])

PrepareWide(d, year_col, country_col, code_col, value_col, start_year, end_year) ==
    LET renamed == RenameColumns(d.columns, year_col, country_col, code_col, value_col)
        pos(name) == {i \in 1..Len(renamed) : renamed[i] = name}
    IN  IF pos(CanonYear) = {} THEN WideKeyError("year")
        ELSE IF pos(CanonGdp) = {} THEN WideKeyError("gdp_per_capita")
        ELSE IF pos(CanonCode) = {} THEN WideKeyError("code")
        ELSE LET iy == SetMin(pos(CanonYear))
                 ic == SetMin(pos(CanonCode))
                 iv == SetMin(pos(CanonGdp))
                 kept == SelectSeq(d.rows, LAMBDA r : InRange(r[iy], start_year, end_year))
             IN  PivotTable(kept, iy, ic, iv)

----------------------------------------------------------------------------
(* compute_portugal_vs_mean *)

\* PresentBasket leaving Portugal out of the mean
PresentBasketOthers(w, developed_16) ==
    SelectSeq(developed_16, LAMBDA c : c \in w.columns /\ c # PORTUGAL)

\* [c for c in developed_16 if c in wide.columns]
PresentBasket(w, developed_16) == SelectSeq(developed_16, LAMBDA c : c \in w.columns)

\* [c for c in developed_16 + [portugal_code] if c not in wide.columns]
MissingCodes(w, developed_16, portugal_code) ==
    SelectSeq(developed_16 \o <<portugal_code>>, LAMBDA c : c \notin w.columns)

RowValues(w, y, codes) == [i \in 1..Len(codes) |-> w.data[y][codes[i]]]

\* DataFrame.count(axis=1)
CountNonNA(vals) == Cardinality({i \in 1..Len(vals) : ~IsNA(vals[i])})

RECURSIVE SumNonNA(_)
SumNonNA(vals) ==
    IF vals = <<>> THEN Num(0)
    ELSE IF IsNA(Head(vals)) THEN SumNonNA(Tail(vals))
    ELSE RatAdd(Head(vals), SumNonNA(Tail(vals)))

\* DataFrame.mean(axis=1), skipna: NaN for a row with no value
RowMean(vals) ==
    IF CountNonNA(vals) = 0 THEN NA ELSE RatDiv(SumNonNA(vals), Num(CountNonNA(vals)))

\* MaskedMean masking a coverage of exactly 12 as well
MaskedMeanOffByOne(vals) == IF CountNonNA(vals) <= MinCoverage THEN NA ELSE RowMean(vals)

\* avg16_mean[avg16["count_non_na"] < 12] = pd.NA
MaskedMean(vals) == IF CountNonNA(vals) < MinCoverage THEN NA ELSE RowMean(vals)

\* wide[portugal_code] if portugal_code in wide.columns else an all-NaN series
PortugalValue(w, y, portugal_code) ==
    IF portugal_code \in w.columns THEN w.data[y][portugal_code] ELSE NA

\* Ratio with a missing operand giving zero (fillna(0))
RatioFillZero(prt, mean) ==
    IF IsNA(prt) \/ IsNA(mean) THEN Num(0) ELSE RatMul(RatDiv(prt, mean), Num(100))

\* (prt / avg16_mean) * 100
Ratio(prt, mean) ==
    IF IsNA(prt) \/ IsNA(mean) THEN NA ELSE RatMul(RatDiv(prt, mean), Num(100))

ComputePortugalVsMean(w, developed_16, portugal_code) ==
    [i \in 1..Len(w.index) |->
        LET y == w.index[i]
            prt == PortugalValue(w, y, portugal_code)
            mean == MaskedMean(RowValues(w, y, PresentBasket(w, developed_16)))
        IN  [year |-> y,
             Portugal_gdp_pc |-> prt,
             Media_16_gdp_pc |-> mean,
             Portugal_pct_da_media_16 |-> Ratio(prt, mean)]]

----------------------------------------------------------------------------
(* Bounds and the bounded inputs *)

MaxCols == 4      \* columns of a raw table whose header varies
MaxRows == 3      \* rows of a raw table whose rows vary
MaxYears == 2     \* years of a wide table given directly

DefaultStartYear == 1870
DefaultEndYear == 2022

NameEntity == <<"E","n","t","i","t","y">>
NameCode == <<"C","o","d","e">>
NameYear == <<"Y","e","a","r">>
NameGdp == <<"G","D","P"," ","p","e","r"," ","c","a","p","i","t","a">>
NameCountryCode == <<"C","o","u","n","t","r","y"," ","C","o","d","e">>
NameGdpYear == <<"G","D","P"," ","y","e","a","r">>
NameIsoCode == <<"I","S","O"," ","c","o","d","e">>
NameNotes == <<"N","o","t","e","s">>

\* The header of the OWID Maddison file
StdColumns == <<NameEntity, NameCode, NameYear, NameGdp>>

\* No name of the pool is one of the canonical names, so a rename never makes
\* two columns of the same name.
NamePool == {NameEntity, NameCode, NameYear, NameGdp, NameCountryCode,
             NameGdpYear, NameIsoCode, NameNotes}

\* read_csv gives distinct column names
Distinct(cs) == \A i, j \in 1..Len(cs) : cs[i] = cs[j] => i = j

Frame(columns, rows) == [columns |-> columns, rows |-> rows]
NoFrame == Frame(<<>>, <<>>)

EntityOf(code) == IF code = "PRT" THEN "Portugal" ELSE IF code = "GBR" THEN "UK" ELSE code

\* Raw tables with the standard header whose rows vary: a row is
\* <<entity, code, year, value>>
RowPool ==
    {<<EntityOf("PRT"), "PRT", y, v>> : y \in 1949..1951, v \in {NA, Num(80), Num(100)}}
    \cup {<<EntityOf("GBR"), "GBR", y, Num(100)>> : y \in 1949..1951}

NarrowArgs ==
    {[start_year |-> 1950, end_year |-> 1950],
     [start_year |-> 1950, end_year |-> 1951]}

ArgChoices == NarrowArgs \cup {[start_year |-> DefaultStartYear, end_year |-> DefaultEndYear]}

\* The end-to-end table: one row per basket code for 1950, Portugal at p and the
\* other fifteen at v, the rows rotated by k
ScenarioFrame(p, v, k) ==
    Frame(StdColumns,
          [i \in 1..Len(DEVELOPED_16) |->
              LET c == DEVELOPED_16[((i - 1 + k) % Len(DEVELOPED_16)) + 1]
              IN  <<EntityOf(c), c, 1950, IF c = PORTUGAL THEN Num(p) ELSE Num(v)>>])

ScenarioRotations == {0, 1, 8}

ScenarioFrames ==
    {ScenarioFrame(p, v, k) : p \in {50, 80}, v \in {100, 150}, k \in ScenarioRotations}

\* What a successful download may return in a run of main
MainFrames ==
    ScenarioFrames
    \cup {Frame(<<NameEntity, NameCode, NameYear>>, <<>>),
          Frame(<<NameEntity, NameCode, NameGdpYear>>, <<>>),
          Frame(<<NameYear, NameCountryCode, NameGdp>>, <<>>),
          Frame(<<>>, <<>>)}

----------------------------------------------------------------------------
(* Wide tables given directly to compute_portugal_vs_mean *)

OtherBasket == SelectSeq(DEVELOPED_16, LAMBDA c : c # PORTUGAL)

\* One year's cells: Portugal's is prt; of the other fifteen basket codes, in
\* basket order, the first k hold a value (the first hi of them 150, the rest
\* 100) and the others are missing; a code outside the basket holds 999.
PatternCell(c, prt, k, hi) ==
    IF c = PORTUGAL THEN prt
    ELSE IF c \notin Range(OtherBasket) THEN Num(999)
    ELSE LET i == CHOOSE j \in 1..Len(OtherBasket) : OtherBasket[j] = c
         IN  IF i > k THEN NA ELSE IF i <= hi THEN Num(150) ELSE Num(100)

RowPatterns ==
    {[prt |-> prt, k |-> k, hi |-> hi] :
        prt \in {NA, Num(50), Num(80)}, k \in {0, 10, 11, 12, 15}, hi \in {0, 1}}

YearList(n) == [i \in 1..n |-> 1949 + i]

ColumnSets ==
    {Range(DEVELOPED_16),
     Range(DEVELOPED_16) \cup {"CHN"},
     Range(DEVELOPED_16) \ {"PRT"},
     Range(DEVELOPED_16) \ {"JPN"},
     Range(DEVELOPED_16) \ {"GBR", "FRA", "DEU", "DNK", "BEL"},
     {"CHN"}}

PatternWide(ys, cs, pat) ==
    WideOk(ys, cs, [y \in Range(ys) |-> [c \in cs |->
                      PatternCell(c, pat[y].prt, pat[y].k, pat[y].hi)]])

----------------------------------------------------------------------------
(* main *)

NoCols == [tag |-> "none", missing |-> <<>>, available |-> <<>>,
           year_col |-> None, country_col |-> None,
           code_col |-> None, value_col |-> None]
NoWide == [tag |-> "none", key |-> "", index |-> <<>>, columns |-> {}, data |-> <<>>]
NoFile == [state |-> "absent", rows |-> <<>>]

MsgDownloading == "A descarregar dados..."
MsgColumns == "Colunas disponiveis"
MsgUsing == "Usando colunas"
MsgCsvSaved == "CSV guardado em"
MsgPngSaved == "PNG guardado em"
ErrFetch == "Traceback: download_csv"
ErrDetect == "Erro a detetar colunas"
ErrPrepare == "Traceback: prepare_wide"
WarnMissing == "Aviso: faltam dados para"
ErrToCsv == "Traceback: to_csv"
ErrPlot == "Erro ao gerar grafico"

PlotStages == {"plot_draw", "plot_mkdir", "plot_savefig", "plot_show"}

\* The state of main once the arguments are parsed
InitMain ==
    /\ pc = "download"
    /\ args \in ArgChoices
    /\ df = NoFrame
    /\ cols = NoCols
    /\ wide = NoWide
    /\ out = <<>>
    /\ csv = NoFile
    /\ png = "absent"
    /\ stderr = <<>>
    /\ stdout = <<>>
    /\ exit_status = Running
    /\ fetches = 0
    /\ trace = <<>>

\* DownloadFail with one retry of the request
DownloadFailRetry ==
    /\ pc = "download"
    /\ fetches' = fetches + 1
    /\ trace' = Append(trace, "download")
    /\ stdout' = Append(stdout, MsgDownloading)
    /\ stderr' = Append(stderr, ErrFetch)
    /\ IF fetches = 0
       THEN pc' = "download" /\ UNCHANGED exit_status
       ELSE pc' = "exit" /\ exit_status' = 1
    /\ UNCHANGED <<args, df, cols, wide, out, csv, png>>

\* download_csv raises (the request fails or times out, raise_for_status, or
\* read_csv): main does not catch it, and the interpreter exits with status 1
DownloadFail ==
    /\ pc = "download"
    /\ fetches' = fetches + 1
    /\ trace' = Append(trace, "download")
    /\ stdout' = Append(stdout, MsgDownloading)
    /\ stderr' = Append(stderr, ErrFetch)
    /\ exit_status' = 1
    /\ pc' = "exit"
    /\ UNCHANGED <<args, df, cols, wide, out, csv, png>>

DownloadOk ==
    /\ pc = "download"
    /\ fetches' = fetches + 1
    /\ trace' = Append(trace, "download")
    /\ df' \in MainFrames
    /\ stdout' = stdout \o <<MsgDownloading, MsgColumns>>
    /\ pc' = "detect"
    /\ UNCHANGED <<args, cols, wide, out, csv, png, stderr, exit_status>>

\* Detect with sys.exit(0) on the detection failure
DetectExitZero ==
    /\ pc = "detect"
    /\ trace' = Append(trace, "detect")
    /\ cols' = DetectColumns(df.columns)
    /\ IF cols'.tag = "ValueError"
       THEN /\ stderr' = Append(stderr, ErrDetect)
            /\ exit_status' = 0
            /\ pc' = "exit"
            /\ UNCHANGED stdout
       ELSE /\ stdout' = Append(stdout, MsgUsing)
            /\ pc' = "prepare"
            /\ UNCHANGED <<stderr, exit_status>>
    /\ UNCHANGED <<args, df, wide, out, csv, png, fetches>>

\* try: detect_columns(df) / except ValueError: print, sys.exit(1)
Detect ==
    /\ pc = "detect"
    /\ trace' = Append(trace, "detect")
    /\ cols' = DetectColumns(df.columns)
    /\ IF cols'.tag = "ValueError"
       THEN /\ stderr' = Append(stderr, ErrDetect)
            /\ exit_status' = 1
            /\ pc' = "exit"
            /\ UNCHANGED stdout
       ELSE /\ stdout' = Append(stdout, MsgUsing)
            /\ pc' = "prepare"
            /\ UNCHANGED <<stderr, exit_status>>
    /\ UNCHANGED <<args, df, wide, out, csv, png, fetches>>

\* prepare_wide; its KeyError is not caught
Prepare ==
    /\ pc = "prepare"
    /\ trace' = Append(trace, "prepare_wide")
    /\ wide' = PrepareWide(df, cols.year_col, cols.country_col, cols.code_col,
                           cols.value_col, args.start_year, args.end_year)
    /\ IF wide'.tag = "KeyError"
       THEN /\ stderr' = Append(stderr, ErrPrepare)
            /\ exit_status' = 1
            /\ pc' = "exit"
       ELSE /\ pc' = "compute"
            /\ UNCHANGED <<stderr, exit_status>>
    /\ UNCHANGED <<args, df, cols, out, csv, png, stdout, fetches>>

Compute ==
    /\ pc = "compute"
    /\ trace' = Append(trace, "compute")
    /\ out' = ComputePortugalVsMean(wide, DEVELOPED_16, PORTUGAL)
    /\ stderr' = IF MissingCodes(wide, DEVELOPED_16, PORTUGAL) # <<>>
                 THEN Append(stderr, WarnMissing) ELSE stderr
    /\ pc' = "to_csv"
    /\ UNCHANGED <<args, df, cols, wide, csv, png, stdout, exit_status, fetches>>

\* out.to_csv(args.out_csv, index=False) returns with the file written and closed
ToCsvOk ==
    /\ pc = "to_csv"
    /\ trace' = Append(trace, "to_csv")
    /\ csv' = [state |-> "written", rows |-> out]
    /\ stdout' = Append(stdout, MsgCsvSaved)
    /\ pc' = "plot_draw"
    /\ UNCHANGED <<args, df, cols, wide, out, png, stderr, exit_status, fetches>>

\* to_csv raises (an unwritable path, a full disk): not caught
ToCsvFail ==
    /\ pc = "to_csv"
    /\ trace' = Append(trace, "to_csv")
    /\ csv' \in {NoFile, [state |-> "partial", rows |-> <<>>]}
    /\ stderr' = Append(stderr, ErrToCsv)
    /\ exit_status' = 1
    /\ pc' = "exit"
    /\ UNCHANGED <<args, df, cols, wide, out, png, stdout, fetches>>

\* plot_ratio, lines 84-93: the figure is drawn
PlotDraw ==
    /\ pc = "plot_draw"
    /\ trace' = Append(trace, "plot_ratio")
    /\ pc' = "plot_mkdir"
    /\ UNCHANGED <<args, df, cols, wide, out, csv, png, stderr, stdout, exit_status, fetches>>

\* out_png.parent.mkdir(parents=True, exist_ok=True)
PlotMkdir ==
    /\ pc = "plot_mkdir"
    /\ pc' = "plot_savefig"
    /\ UNCHANGED <<args, df, cols, wide, out, csv, png, stderr, stdout, exit_status,
                   fetches, trace>>

\* plt.savefig(out_png, dpi=180)
PlotSavefig ==
    /\ pc = "plot_savefig"
    /\ png' = "written"
    /\ pc' = "plot_show"
    /\ UNCHANGED <<args, df, cols, wide, out, csv, stderr, stdout, exit_status,
                   fetches, trace>>

\* plt.show() returns, main prints the image's path and returns
PlotShow ==
    /\ pc = "plot_show"
    /\ stdout' = Append(stdout, MsgPngSaved)
    /\ exit_status' = 0
    /\ pc' = "exit"
    /\ UNCHANGED <<args, df, cols, wide, out, csv, png, stderr, fetches, trace>>

\* PlotFail without the try/except around plot_ratio
PlotFailUncaught ==
    /\ pc \in PlotStages
    /\ trace' = IF pc = "plot_draw" THEN Append(trace, "plot_ratio") ELSE trace
    /\ png' \in IF pc = "plot_savefig" THEN {"absent", "partial"} ELSE {png}
    /\ stderr' = Append(stderr, "Traceback: plot_ratio")
    /\ exit_status' = 1
    /\ pc' = "exit"
    /\ UNCHANGED <<args, df, cols, wide, out, csv, stdout, fetches>>

\* A statement of plot_ratio raises: except Exception prints the diagnostic and
\* main returns
PlotFail ==
    /\ pc \in PlotStages
    /\ trace' = IF pc = "plot_draw" THEN Append(trace, "plot_ratio") ELSE trace
    /\ png' \in IF pc = "plot_savefig" THEN {"absent", "partial"} ELSE {png}
    /\ stderr' = Append(stderr, ErrPlot)
    /\ exit_status' = 0
    /\ pc' = "exit"
    /\ UNCHANGED <<args, df, cols, wide, out, csv, stdout, fetches>>

NextMain ==
    \/ DownloadFail
    \/ DownloadOk
    \/ Detect
    \/ Prepare
    \/ Compute
    \/ ToCsvOk
    \/ ToCsvFail
    \/ PlotDraw
    \/ PlotMkdir
    \/ PlotSavefig
    \/ PlotShow
    \/ PlotFail

\* A run of main
Spec == InitMain /\ [][NextMain]_vars

----------------------------------------------------------------------------
(* The functions on their own: main at the call, the argument drawn from a *)
(* bounded set                                                              *)

DefaultArgs == [start_year |-> DefaultStartYear, end_year |-> DefaultEndYear]

InitDetect ==
    /\ pc = "detect"
    /\ args = DefaultArgs
    /\ \E n \in 0..MaxCols :
           \E cs \in [1..n -> NamePool] : Distinct(cs) /\ df = Frame(cs, <<>>)
    /\ cols = NoCols
    /\ wide = NoWide
    /\ out = <<>>
    /\ csv = NoFile
    /\ png = "absent"
    /\ stderr = <<>>
    /\ stdout = <<MsgDownloading, MsgColumns>>
    /\ exit_status = Running
    /\ fetches = 1
    /\ trace = <<"download">>

NextDetect == Detect \/ Prepare

\* detect_columns, and the renaming of prepare_wide, over every header of at most
\* MaxCols distinct names of the pool (no rows: the header alone decides
\* detection and the renaming)
SpecDetect == InitDetect /\ [][NextDetect]_vars

InitWide ==
    /\ pc = "prepare"
    /\ args \in NarrowArgs
    /\ \E n \in 0..MaxRows :
           \E rs \in [1..n -> RowPool] : df = Frame(StdColumns, rs)
    /\ cols = DetectColumns(StdColumns)
    /\ wide = NoWide
    /\ out = <<>>
    /\ csv = NoFile
    /\ png = "absent"
    /\ stderr = <<>>
    /\ stdout = <<MsgDownloading, MsgColumns, MsgUsing>>
    /\ exit_status = Running
    /\ fetches = 1
    /\ trace = <<"download", "detect">>

NextWide == Prepare

\* prepare_wide over every raw table of the standard header
SpecWide == InitWide /\ [][NextWide]_vars

InitAgg ==
    /\ pc = "compute"
    /\ args = DefaultArgs
    /\ df = Frame(StdColumns, <<>>)
    /\ cols = DetectColumns(StdColumns)
    /\ \E n \in 0..MaxYears, cs \in ColumnSets :
           \E pat \in [Range(YearList(n)) -> RowPatterns] :
               wide = PatternWide(YearList(n), cs, pat)
    /\ out = <<>>
    /\ csv = NoFile
    /\ png = "absent"
    /\ stderr = <<>>
    /\ stdout = <<MsgDownloading, MsgColumns, MsgUsing>>
    /\ exit_status = Running
    /\ fetches = 1
    /\ trace = <<"download", "detect", "prepare_wide">>

NextAgg == Compute

\* compute_portugal_vs_mean over every wide table
SpecAgg == InitAgg /\ [][NextAgg]_vars

----------------------------------------------------------------------------
(* detect_columns: claims C5 and C10 *)

FieldKeywords == <<{KwYear}, {KwEntity, KwCountry}, {KwCode}, {KwGdp}>>

\* The name, lowercased, has the keyword as a run of consecutive characters
HasKeyword(name, kw) ==
    \E i \in 1..Len(name) :
        /\ i + Len(kw) - 1 <= Len(name)
        /\ SubSeq(Lower(name), i, i + Len(kw) - 1) = kw

\* The positions of the columns that match logical field f
Matches(columns, f) ==
    {i \in 1..Len(columns) : \E kw \in FieldKeywords[f] : HasKeyword(columns[i], kw)}

Detected(c) == <<c.year_col, c.country_col, c.code_col, c.value_col>>

DetectHasRun == "detect" \in Range(trace)

\* C5: detect_columns selects for each of the four fields the earliest column
\* whose lowercased name contains the field's keyword; it fails exactly when
\* some field has no such column, and the error then names exactly the
\* unresolved fields and the full list of columns.
C5_DetectFirstMatch ==
    DetectHasRun =>
        LET columns == df.columns
            unresolved == {f \in 1..4 : Matches(columns, f) = {}}
        IN  IF unresolved = {}
            THEN /\ cols.tag = "ok"
                 /\ \A f \in 1..4 : Detected(cols)[f] = columns[SetMin(Matches(columns, f))]
            ELSE /\ cols.tag = "ValueError"
                 /\ Range(cols.missing) = {FieldNames[f] : f \in unresolved}
                 /\ Len(cols.missing) = Cardinality(unresolved)
                 /\ cols.available = columns

\* Detection succeeded on a header with two columns containing "code", and the
\* earlier one was selected
C5_Witness ==
    /\ DetectHasRun
    /\ cols.tag = "ok"
    /\ Cardinality(Matches(df.columns, 3)) >= 2
    /\ cols.code_col = df.columns[SetMin(Matches(df.columns, 3))]
    /\ cols.code_col # df.columns[SetMax(Matches(df.columns, 3))]

\* C10: whenever detect_columns succeeds, the table renamed inside prepare_wide
\* has the four canonical columns, each the column detected for its field, and
\* prepare_wide does not fail.
C10_RenameKeepsFourColumns ==
    "prepare_wide" \in Range(trace) =>
        LET renamed == RenameColumns(df.columns, cols.year_col, cols.country_col,
                                     cols.code_col, cols.value_col)
            canon == <<CanonYear, CanonEntity, CanonCode, CanonGdp>>
        IN  /\ wide.tag = "ok"
            /\ \A f \in 1..4 :
                   \E i \in 1..Len(renamed) :
                       renamed[i] = canon[f] /\ df.columns[i] = Detected(cols)[f]

----------------------------------------------------------------------------
(* prepare_wide: claims C6 and C7, over raw tables of the standard header, *)
(* whose rows are <<entity, code, year, value>>                             *)

PrepareHasRun == "prepare_wide" \in Range(trace)

RowCode(i) == df.rows[i][2]
RowYear(i) == df.rows[i][3]
RowValue(i) == df.rows[i][4]

\* The rows whose year is within the inclusive range of the arguments
Retained ==
    {i \in 1..Len(df.rows) : args.start_year <= RowYear(i) /\ RowYear(i) <= args.end_year}

PairRows(y, c) == {i \in Retained : RowYear(i) = y /\ RowCode(i) = c}

RetainedPairs == {<<RowYear(i), RowCode(i)>> : i \in Retained}

\* The cell of the wide table, missing when the year is no row or the code no column
WideCell(y, c) ==
    IF y \in Range(wide.index) /\ c \in wide.columns THEN wide.data[y][c] ELSE NA

\* C6 as stated: the cell of a (year, code) pair holds the value of the first
\* retained row of the pair in row order, also when that value is missing.
C6_FirstRowWins ==
    PrepareHasRun =>
        \A k \in RetainedPairs :
            WideCell(k[1], k[2]) = RowValue(SetMin(PairRows(k[1], k[2])))

\* C6, amended: the cell of a (year, code) pair holds the value of the first
\* retained row of the pair whose value is not missing, the later values being
\* discarded; it is missing only when every row of the pair has a missing value.
C6_FirstNonMissingWins ==
    PrepareHasRun =>
        \A k \in RetainedPairs :
            LET valued == {i \in PairRows(k[1], k[2]) : ~IsNA(RowValue(i))}
            IN  WideCell(k[1], k[2]) = IF valued = {} THEN NA ELSE RowValue(SetMin(valued))

\* A pair with three retained rows, a missing value then two different values:
\* the cell holds the first of the two values
C6_Witness ==
    /\ PrepareHasRun
    /\ \E k \in RetainedPairs :
           \E a, b, c \in PairRows(k[1], k[2]) :
               /\ a < b /\ b < c
               /\ IsNA(RowValue(a))
               /\ ~IsNA(RowValue(b)) /\ ~IsNA(RowValue(c))
               /\ RowValue(b) # RowValue(c)
               /\ WideCell(k[1], k[2]) = RowValue(b)

\* C7: prepare_wide keeps a row exactly when start_year <= year <= end_year: a
\* row at either end of the range is in the wide table, and a row outside the
\* range contributes nothing to it.
C7_YearRangeInclusive ==
    PrepareHasRun =>
        /\ wide.tag = "ok"
        /\ \A y \in Range(wide.index) : args.start_year <= y /\ y <= args.end_year
        /\ \A i \in 1..Len(df.rows) :
               (args.start_year <= RowYear(i) /\ RowYear(i) <= args.end_year
                    /\ ~IsNA(RowValue(i)))
                   => ~IsNA(WideCell(RowYear(i), RowCode(i)))
        /\ \A y \in Range(wide.index) : \A c \in wide.columns :
               ~IsNA(wide.data[y][c]) =>
                   \E i \in 1..Len(df.rows) :
                       /\ args.start_year <= RowYear(i) /\ RowYear(i) <= args.end_year
                       /\ RowYear(i) = y /\ RowCode(i) = c /\ RowValue(i) = wide.data[y][c]

\* start = end = 1950 with valued rows at 1949, 1950 and 1951: only 1950 is kept
C7_Witness ==
    /\ PrepareHasRun
    /\ args.start_year = 1950 /\ args.end_year = 1950
    /\ \A y \in {1949, 1950, 1951} :
           \E i \in 1..Len(df.rows) : RowYear(i) = y /\ ~IsNA(RowValue(i))
    /\ wide.index = <<1950>>

----------------------------------------------------------------------------
(* compute_portugal_vs_mean: claims C1 and C2 *)

ComputeHasRun == "compute" \in Range(trace)

\* The basket codes with a value in year y: a column of the wide table, not missing
Observed(y) ==
    {c \in Range(DEVELOPED_16) : c \in wide.columns /\ ~IsNA(wide.data[y][c])}

RECURSIVE TotalOver(_, _)
TotalOver(S, y) ==
    IF S = {} THEN Num(0)
    ELSE LET c == CHOOSE x \in S : TRUE
         IN  RatAdd(wide.data[y][c], TotalOver(S \ {c}, y))

\* C1: for every year of the wide table, Media_16_gdp_pc is the arithmetic mean
\* of the non-missing values among the 16 basket codes (an absent column counts
\* as missing) when at least 12 are non-missing, and missing when fewer are.
C1_MaskedMean ==
    ComputeHasRun =>
        /\ Len(out) = Len(wide.index)
        /\ \A i \in 1..Len(out) :
               LET y == wide.index[i]
                   n == Cardinality(Observed(y))
                   m == out[i].Media_16_gdp_pc
               IN  /\ out[i].year = y
                   /\ IF n >= 12
                      THEN ~IsNA(m) /\ RatMul(m, Num(n)) = TotalOver(Observed(y), y)
                      ELSE IsNA(m)

\* A table without the JPN column where one year has 11 observed basket codes
\* (mean missing) and another has 12 (mean present)
C1_Witness ==
    /\ ComputeHasRun
    /\ "JPN" \notin wide.columns
    /\ \E i, j \in 1..Len(out) :
           /\ Cardinality(Observed(out[i].year)) = 11 /\ IsNA(out[i].Media_16_gdp_pc)
           /\ Cardinality(Observed(out[j].year)) = 12 /\ ~IsNA(out[j].Media_16_gdp_pc)

\* C2: in every row of the result, the ratio is missing when Portugal's value
\* or the masked mean is missing (Portugal's value is missing in every year
\* when the PRT column is absent), never zero or another number; when both are
\* present the ratio is Portugal / mean x 100, and 50 over 100 gives 50.
C2_RatioMissingOrExact ==
    ComputeHasRun =>
        /\ Len(out) = Len(wide.index)
        /\ \A i \in 1..Len(out) :
               LET p == out[i].Portugal_gdp_pc
                   m == out[i].Media_16_gdp_pc
                   r == out[i].Portugal_pct_da_media_16
               IN  /\ p = WideCell(wide.index[i], PORTUGAL)
                   /\ (IsNA(p) \/ IsNA(m)) => IsNA(r)
                   /\ (~IsNA(p) /\ ~IsNA(m)) =>
                          /\ ~IsNA(r)
                          /\ r[1] * m[1] * p[2] = 100 * p[1] * m[2] * r[2]
                   /\ (p = Num(50) /\ m = Num(100)) => r = Num(50)

\* One year with Portugal 50, mean 100 and ratio 50, and another year whose
\* mean is masked while Portugal has a value, the ratio missing
C2_Witness ==
    /\ ComputeHasRun
    /\ \E i, j \in 1..Len(out) :
           /\ out[i].Portugal_gdp_pc = Num(50)
           /\ out[i].Media_16_gdp_pc = Num(100)
           /\ out[i].Portugal_pct_da_media_16 = Num(50)
           /\ ~IsNA(out[j].Portugal_gdp_pc)
           /\ IsNA(out[j].Media_16_gdp_pc)
           /\ IsNA(out[j].Portugal_pct_da_media_16)

----------------------------------------------------------------------------
(* main: claims C3, C4, C8 and C9 *)

\* The raw table of the end-to-end scenario (Portugal 80, the other fifteen
\* basket codes 100, year 1950 only), with start_year = end_year = 1950
ScenarioRun ==
    /\ \E k \in ScenarioRotations : df = ScenarioFrame(80, 100, k)
    /\ args.start_year = 1950
    /\ args.end_year = 1950

ResultRow(y, p, m, r) ==
    [year |-> y, Portugal_gdp_pc |-> p, Media_16_gdp_pc |-> m,
     Portugal_pct_da_media_16 |-> r]

\* C3 as stated: the scenario gives exactly one row, year 1950, Portugal 80,
\* mean 100, ratio 80.
C3_EndToEndAsStated ==
    (ScenarioRun /\ ComputeHasRun) => out = <<ResultRow(1950, Num(80), Num(100), Num(80))>>

\* C3, amended: the scenario gives exactly one row, year 1950, Portugal 80,
\* mean 98.75 (Portugal is one of the 16: (15 x 100 + 80) / 16 = 395/4) and
\* ratio 80 / 98.75 x 100 = 6400/79.
C3_EndToEnd ==
    (ScenarioRun /\ ComputeHasRun) =>
        out = <<ResultRow(1950, Num(80), <<395, 4>>, <<6400, 79>>)>>

\* The scenario has run through to_csv: the one row of year 1950 is in the file
C3_Witness ==
    /\ ScenarioRun
    /\ ComputeHasRun
    /\ csv.state = "written"
    /\ Len(csv.rows) = 1
    /\ csv.rows[1].year = 1950
    /\ csv.rows[1].Portugal_gdp_pc = Num(80)

FatalErrors == {ErrFetch, ErrDetect, ErrPrepare, ErrToCsv}

\* C4 as stated: main exits non-zero if column detection fails and with status
\* zero in every other case.
C4_NonZeroOnlyOnDetectFailure ==
    pc = "exit" => (exit_status # 0 <=> ErrDetect \in Range(stderr))

\* C4, amended: a run of main whose arguments parse exits non-zero if the fetch,
\* the column detection, prepare_wide or the writing of the CSV fails, and with
\* status zero otherwise, including when plotting fails.
C4_ExitStatus ==
    /\ pc # "exit" => exit_status = Running
    /\ pc = "exit" =>
           /\ exit_status \in {0, 1}
           /\ exit_status # 0 <=> Range(stderr) \cap FatalErrors # {}
           /\ ErrPlot \in Range(stderr) => exit_status = 0

\* A run that ended with status zero after plotting failed
C4_Witness ==
    /\ pc = "exit"
    /\ ErrPlot \in Range(stderr)
    /\ exit_status = 0

PlotEntered == pc \in PlotStages \/ "plot_ratio" \in Range(trace)

\* C8: plotting is attempted only after the result CSV is completely written;
\* a failure anywhere in plot_ratio is caught and reported as a diagnostic,
\* leaves the written CSV in place and does not abort the run.
C8_PlotAfterCsvAndNonFatal ==
    /\ PlotEntered => csv = [state |-> "written", rows |-> out]
    /\ (pc = "exit" /\ PlotEntered) =>
           /\ exit_status = 0
           /\ MsgPngSaved \in Range(stdout) \/ ErrPlot \in Range(stderr)
    /\ ErrPlot \in Range(stderr) =>
           /\ pc = "exit"
           /\ exit_status = 0
           /\ csv = [state |-> "written", rows |-> out]
           /\ MsgPngSaved \notin Range(stdout)

\* savefig failed on the image path: the diagnostic is printed, the CSV is there
C8_Witness ==
    /\ pc = "exit"
    /\ ErrPlot \in Range(stderr)
    /\ png = "partial"
    /\ csv.state = "written"
    /\ Len(csv.rows) = 1
    /\ exit_status = 0

\* C9: the fetch is attempted at most once per run; after a fetch failure or a
\* column-detection failure the run has ended, no later stage has run, and
\* neither the CSV nor the image has been written.
C9_FatalErrorsAbort ==
    /\ fetches <= 1
    /\ ErrFetch \in Range(stderr) =>
           /\ pc = "exit" /\ exit_status # 0
           /\ trace = <<"download">>
           /\ csv = NoFile /\ png = "absent"
    /\ ErrDetect \in Range(stderr) =>
           /\ pc = "exit" /\ exit_status # 0
           /\ trace = <<"download", "detect">>
           /\ csv = NoFile /\ png = "absent"

\* The one fetch of the run failed and the run has ended
C9_Witness ==
    /\ ErrFetch \in Range(stderr)
    /\ fetches = 1
    /\ pc = "exit"

====
